---- MODULE Spec2Model ----
(***************************************************************************)
(* Task management application: the relational store with its row-level    *)
(* policies and triggers (supabase/migrations), and the client pages that  *)
(* read and write it (TimeTracking, Users).                                *)
(*                                                                         *)
(* Timestamps are whole seconds since an arbitrary origin.  A policy is    *)
(* the boolean predicate its USING / WITH CHECK clause declares, evaluated *)
(* for the caller auth.uid() on one row; the permissive policies of one    *)
(* command are OR-ed, USING and WITH CHECK separately.                     *)
(***************************************************************************)
EXTENDS Integers, FiniteSets, Sequences, TLC

VARIABLES
    profiles,         \* table profiles: user id -> [role, status, full_name]
    projects,         \* table projects: project id -> [manager_id, description,
                      \*                                start_date, end_date]
    project_members,  \* table project_members: set of <<project_id, user_id>>
    tasks,            \* table tasks: task id -> [project_id, assigned_to, created_by,
                      \*                          status, end_date]
    time_logs,        \* table time_logs: set of rows
    nextId,           \* next primary key of time_logs (gen_random_uuid)
    now,              \* wall clock, seconds
    session,          \* page state of each client session: the TimeTracking
                      \* timer and the Tasks page's list and edit modal
    lastOp            \* the last request answered or page rendered, with its result

vars == <<profiles, projects, project_members, tasks, time_logs, nextId, now,
          session, lastOp>>

----------------------------------------------------------------------------
(* Bounds *)

MaxLogs == 2
MaxTicks == 1
MaxStoreLogs == 1
MaxTasks == 4
MaxDays == 1

(* Program constants *)

SecondsPerMinute == 60
SecondsPerDay == 86400

\* A nullable column holds NULL or Some(v); a column an insert or update does
\* not name is absent from the record of its values.
NULL == <<>>
Some(v) == <<v>>
Val(x) == x[1]

Users == {"u1", "u2", "u3"}
ProjectIds == {"p1"}
TaskIds == {1, 2, 3}
Sessions == {"s1", "s2"}
Roles == {"admin", "project_manager", "employee"}
Statuses == {"active", "inactive"}
ApprovalStatuses == {"pending", "approved", "rejected"}
TickStep == 45
FormTimes == {0, 90, 119}
FormDates == {0, 1}

\* Every session is a browser tab of the same signed-in user.
SessionUser(s) == "u3"

----------------------------------------------------------------------------
(* profiles: helper used by every "Admins can ..." policy *)

IsAdmin(uid) ==
    \E id \in DOMAIN profiles : id = uid /\ profiles[id].role = "admin"

ManagesProject(uid, pid) ==
    \E id \in DOMAIN projects : Some(id) = pid /\ projects[id].manager_id = Some(uid)

----------------------------------------------------------------------------
(* time_logs: trigger calculate_time_log_duration *)

\* numeric -> integer assignment rounds to the nearest integer, ties away
\* from zero.
RoundToInteger_truncate(num, den) ==
    IF num >= 0 THEN num \div den ELSE 0 - ((0 - num) \div den)

RoundToInteger(num, den) ==
    IF num >= 0 THEN (2 * num + den) \div (2 * den)
                ELSE 0 - (((2 * (0 - num)) + den) \div (2 * den))

calculate_time_log_duration_keep(new) ==
    IF new.duration_minutes # NULL THEN new
    ELSE IF new.end_time # NULL
         THEN [new EXCEPT !.duration_minutes =
                   Some(RoundToInteger(Val(new.end_time) - new.start_time, SecondsPerMinute))]
         ELSE new

calculate_time_log_duration(new) ==
    IF new.end_time # NULL
    THEN [new EXCEPT !.duration_minutes =
              Some(RoundToInteger(Val(new.end_time) - new.start_time, SecondsPerMinute))]
    ELSE [new EXCEPT !.duration_minutes = NULL]

----------------------------------------------------------------------------
(* time_logs: row-level policies *)

UsersCanViewOwnTimeLogs(uid, row) == row.user_id = uid

AdminsCanViewAllTimeLogs(uid, row) == IsAdmin(uid)

ProjectManagersCanViewProjectTimeLogs(uid, row) ==
    ManagesProject(uid, row.project_id)

TimeLogsSelect(uid, row) ==
    \/ UsersCanViewOwnTimeLogs(uid, row)
    \/ AdminsCanViewAllTimeLogs(uid, row)
    \/ ProjectManagersCanViewProjectTimeLogs(uid, row)

UsersCanCreateTimeLogs(uid, new) ==
    /\ new.user_id = uid
    /\ \E t \in DOMAIN tasks :
          /\ t = new.task_id
          /\ (tasks[t].assigned_to = Some(uid) \/ tasks[t].created_by = uid)

TimeLogsInsertCheck(uid, new) == UsersCanCreateTimeLogs(uid, new)

UsersCanUpdateOwnTimeLogsUsing(uid, old) ==
    /\ old.user_id = uid
    /\ (old.approval_status = "pending" \/ old.approval_status = "approved")

UsersCanUpdateOwnTimeLogsCheck(uid, new) == new.user_id = uid

AdminsCanUpdateAllTimeLogsUsing(uid, old) == IsAdmin(uid)

AdminsCanUpdateAllTimeLogsCheck(uid, new) == IsAdmin(uid)

TimeLogsUpdateUsing(uid, old) ==
    \/ UsersCanUpdateOwnTimeLogsUsing(uid, old)
    \/ AdminsCanUpdateAllTimeLogsUsing(uid, old)

TimeLogsUpdateCheck(uid, new) ==
    \/ UsersCanUpdateOwnTimeLogsCheck(uid, new)
    \/ AdminsCanUpdateAllTimeLogsCheck(uid, new)

UsersCanDeleteOwnTimeLogs_any(uid, old) == old.user_id = uid

UsersCanDeleteOwnTimeLogs(uid, old) ==
    /\ old.user_id = uid
    /\ old.approval_status = "pending"

AdminsCanDeleteTimeLogs(uid, old) == IsAdmin(uid)

TimeLogsDeleteUsing(uid, old) ==
    \/ UsersCanDeleteOwnTimeLogs(uid, old)
    \/ AdminsCanDeleteTimeLogs(uid, old)

----------------------------------------------------------------------------
(* time_logs: the table's column defaults, and the three row commands *)

\* CREATE TABLE time_logs: a column the insert leaves out takes its default.
TimeLogDefaults(id, vals) ==
    [id               |-> id,
     user_id          |-> vals.user_id,
     task_id          |-> vals.task_id,
     project_id       |-> IF "project_id" \in DOMAIN vals THEN vals.project_id ELSE NULL,
     start_time       |-> vals.start_time,
     end_time         |-> IF "end_time" \in DOMAIN vals THEN vals.end_time ELSE NULL,
     duration_minutes |-> IF "duration_minutes" \in DOMAIN vals
                          THEN vals.duration_minutes ELSE NULL,
     date             |-> vals.date,
     approval_status  |-> IF "approval_status" \in DOMAIN vals
                          THEN vals.approval_status ELSE "approved"]

\* INSERT: BEFORE INSERT trigger, then the WITH CHECK of the insert policies.
InsertedTimeLog(id, vals) == calculate_time_log_duration(TimeLogDefaults(id, vals))

\* UPDATE ... WHERE id = old.id: the patch, then the BEFORE UPDATE trigger.
UpdatedTimeLog(old, patch) ==
    calculate_time_log_duration(
        [c \in DOMAIN old |-> IF c \in DOMAIN patch THEN patch[c] ELSE old[c]])

\* The rows an UPDATE by uid of the rows `target` leaves in the table: a row
\* failing USING is skipped silently; a new row failing WITH CHECK raises an
\* error and the statement changes nothing.
UpdateVisible(uid, target) == {r \in target : TimeLogsUpdateUsing(uid, r)}

UpdateError(uid, target, patch) ==
    \E r \in UpdateVisible(uid, target) :
        ~TimeLogsUpdateCheck(uid, UpdatedTimeLog(r, patch))

UpdateTimeLogs(uid, target, patch) ==
    IF UpdateError(uid, target, patch) THEN time_logs
    ELSE (time_logs \ UpdateVisible(uid, target))
         \cup {UpdatedTimeLog(r, patch) : r \in UpdateVisible(uid, target)}

DeleteTimeLogs(uid, target) ==
    time_logs \ {r \in target : TimeLogsDeleteUsing(uid, r)}

RowsById(id) == {r \in time_logs : r.id = id}

----------------------------------------------------------------------------
(* Initial state: three registered users, one project, three tasks, no time
   log, no TimeTracking page open. *)

\* Tasks.resetForm: project, assignee and dates empty, status to_do.
EmptyTaskForm ==
    [project_id |-> "", assigned_to |-> "", status |-> "to_do", end_date |-> ""]

\* Tasks page before its first fetch: no task listed, modal closed.
NoTasksPage ==
    [taskList |-> <<>>, modalOpen |-> FALSE, editingTask |-> NULL,
     formData |-> EmptyTaskForm]

NoSession ==
    [mounted |-> FALSE, loading |-> TRUE, tasks |-> {}, activeLog |-> NULL,
     pending |-> {}, inbox |-> {}, tasksPage |-> NoTasksPage]

NoOp == [op |-> "none", caller |-> "", id |-> NULL, ok |-> TRUE]

Init ==
    /\ profiles = [u \in Users |->
          [role |-> CASE u = "u1" -> "admin"
                      [] u = "u2" -> "project_manager"
                      [] OTHER    -> "employee",
           status |-> "active",
           full_name |-> "a"]]
    /\ projects = [p \in ProjectIds |->
          [manager_id |-> Some("u2"), description |-> NULL, start_date |-> NULL,
           end_date |-> NULL]]
    /\ project_members = {<<"p1", "u3">>}
    /\ tasks = [t \in TaskIds |->
          CASE t = 1 -> [project_id |-> Some("p1"), assigned_to |-> Some("u3"),
                            created_by |-> "u2", status |-> "to_do", end_date |-> NULL]
            [] t = 2 -> [project_id |-> NULL, assigned_to |-> NULL, created_by |-> "u3",
                            status |-> "to_do", end_date |-> NULL]
            [] OTHER -> [project_id |-> Some("p1"), assigned_to |-> Some("u2"),
                            created_by |-> "u1", status |-> "to_do", end_date |-> NULL]]
    /\ time_logs = {}
    /\ nextId = 1
    /\ now = 0
    /\ session = [s \in Sessions |-> NoSession]
    /\ lastOp = NoOp

Today == now \div SecondsPerDay

StoreUnchanged == UNCHANGED <<profiles, projects, project_members, tasks>>

----------------------------------------------------------------------------
(* TimeTracking page *)

\* useEffect on mount: a fresh component issues its three queries.  Responses
\* addressed to the unmounted instance are dropped.
Mount(s) ==
    /\ session' = [session EXCEPT ![s] =
          [NoSession EXCEPT !.mounted = TRUE,
                            !.pending = {"fetchTimeLogs", "fetchTasks", "checkActiveLog"}]]
    /\ UNCHANGED <<time_logs, nextId, now, lastOp>>
    /\ StoreUnchanged

\* fetchTimeLogs answered: the history list is display only; finally
\* setLoading(false).
FetchTimeLogsDone(s) ==
    /\ "fetchTimeLogs" \in session[s].pending
    /\ session' = [session EXCEPT ![s].pending = @ \ {"fetchTimeLogs"},
                                  ![s].loading = FALSE]
    /\ UNCHANGED <<time_logs, nextId, now, lastOp>>
    /\ StoreUnchanged

\* fetchTasks answered: tasks assigned to or created by the user.
FetchTasksResult(uid) ==
    {t \in DOMAIN tasks : tasks[t].assigned_to = Some(uid) \/ tasks[t].created_by = uid}

FetchTasksDone(s) ==
    /\ "fetchTasks" \in session[s].pending
    /\ session' = [session EXCEPT ![s].pending = @ \ {"fetchTasks"},
                                  ![s].tasks = FetchTasksResult(SessionUser(s))]
    /\ UNCHANGED <<time_logs, nextId, now, lastOp>>
    /\ StoreUnchanged

\* checkActiveLog at the store: .eq(user_id).is(end_time, null).maybeSingle()
\* gives the row when exactly one matches, else data = null (no row, or the
\* several-rows error, which the handler does not read).
MaybeSingle(rows) ==
    IF Cardinality(rows) = 1 THEN Some((CHOOSE r \in rows : TRUE).id) ELSE NULL

ActiveRows(uid) ==
    {r \in time_logs : TimeLogsSelect(uid, r) /\ r.user_id = uid /\ r.end_time = NULL}

CheckActiveLogQuery(s) ==
    /\ "checkActiveLog" \in session[s].pending
    /\ session' = [session EXCEPT
          ![s].pending = @ \ {"checkActiveLog"},
          ![s].inbox = @ \cup {<<"checkActiveLog", MaybeSingle(ActiveRows(SessionUser(s)))>>}]
    /\ UNCHANGED <<time_logs, nextId, now, lastOp>>
    /\ StoreUnchanged

\* checkActiveLog answered: setActiveLog(data).
CheckActiveLogDone(s) ==
    \E m \in session[s].inbox :
        /\ m[1] = "checkActiveLog"
        /\ session' = [session EXCEPT ![s].inbox = @ \ {m}, ![s].activeLog = m[2]]
        /\ UNCHANGED <<time_logs, nextId, now, lastOp>>
        /\ StoreUnchanged

\* The card shows the Start buttons (one per fetched task) when the page is
\* past its loading gate and activeLog is null, else the Stop button.
StartOffered(s) ==
    /\ session[s].mounted
    /\ ~session[s].loading
    /\ session[s].activeLog = NULL
    /\ session[s].tasks # {}

StopOffered(s) ==
    /\ session[s].mounted
    /\ ~session[s].loading
    /\ session[s].activeLog # NULL

StartTimerValues(uid, taskId) ==
    [user_id |-> uid, task_id |-> taskId, start_time |-> now, date |-> Today]

\* startTimer(taskId): the click and the insert at the store; the response
\* (the inserted row) travels back in the inbox.
StartTimer(s, taskId) ==
    LET uid == SessionUser(s)
        row == InsertedTimeLog(nextId, StartTimerValues(uid, taskId))
        ok  == TimeLogsInsertCheck(uid, row)
    IN  /\ StartOffered(s)
        /\ taskId \in session[s].tasks
        /\ nextId <= MaxLogs
        /\ time_logs' = IF ok THEN time_logs \cup {row} ELSE time_logs
        /\ nextId' = IF ok THEN nextId + 1 ELSE nextId
        /\ session' = IF ok
                      THEN [session EXCEPT ![s].inbox = @ \cup {<<"startTimer", Some(row.id)>>}]
                      ELSE session
        /\ lastOp' = [op |-> "startTimer", caller |-> uid, id |-> Some(row.id), ok |-> ok]
        /\ UNCHANGED now
        /\ StoreUnchanged

\* startTimer answered without error: setActiveLog(data).
StartTimerDone(s) ==
    \E m \in session[s].inbox :
        /\ m[1] = "startTimer"
        /\ session' = [session EXCEPT ![s].inbox = @ \ {m}, ![s].activeLog = m[2]]
        /\ UNCHANGED <<time_logs, nextId, now, lastOp>>
        /\ StoreUnchanged

\* stopTimer(): the click and the update at the store.  An update that
\* matches no row is no error.
StopTimer(s) ==
    LET uid    == SessionUser(s)
        target == RowsById(Val(session[s].activeLog))
        patch  == [end_time |-> Some(now)]
        ok     == ~UpdateError(uid, target, patch)
    IN  /\ StopOffered(s)
        /\ time_logs' = UpdateTimeLogs(uid, target, patch)
        /\ session' = IF ok
                      THEN [session EXCEPT ![s].inbox = @ \cup {<<"stopTimer", session[s].activeLog>>}]
                      ELSE session
        /\ lastOp' = [op |-> "stopTimer", caller |-> uid, id |-> session[s].activeLog,
                      ok |-> ok]
        /\ UNCHANGED <<nextId, now>>
        /\ StoreUnchanged

\* stopTimer answered without error: setActiveLog(null).
StopTimerDone(s) ==
    \E m \in session[s].inbox :
        /\ m[1] = "stopTimer"
        /\ session' = [session EXCEPT ![s].inbox = @ \ {m}, ![s].activeLog = NULL]
        /\ UNCHANGED <<time_logs, nextId, now, lastOp>>
        /\ StoreUnchanged

ManualEntryValues_default(uid, taskId, startTime, endTime, date) ==
    [user_id |-> uid, task_id |-> taskId, start_time |-> startTime,
     end_time |-> Some(endTime), date |-> date]

ManualEntryValues(uid, taskId, startTime, endTime, date) ==
    [user_id |-> uid, task_id |-> taskId, start_time |-> startTime,
     end_time |-> Some(endTime), date |-> date, approval_status |-> "pending"]

\* handleManualEntry: the form (all four fields required, the task one of
\* the fetched tasks) is inserted; the response only closes the modal and
\* refreshes the history list.
HandleManualEntry(s, taskId, startTime, endTime, date) ==
    LET uid == SessionUser(s)
        row == InsertedTimeLog(nextId, ManualEntryValues(uid, taskId, startTime, endTime, date))
        ok  == TimeLogsInsertCheck(uid, row)
    IN  /\ session[s].mounted
        /\ ~session[s].loading
        /\ taskId \in session[s].tasks
        /\ nextId <= MaxLogs
        /\ time_logs' = IF ok THEN time_logs \cup {row} ELSE time_logs
        /\ nextId' = IF ok THEN nextId + 1 ELSE nextId
        /\ lastOp' = [op |-> "handleManualEntry", caller |-> uid, id |-> Some(row.id), ok |-> ok]
        /\ UNCHANGED <<now, session>>
        /\ StoreUnchanged

\* Time passes.
Tick ==
    /\ now < MaxTicks * TickStep
    /\ now' = now + TickStep
    /\ UNCHANGED <<time_logs, nextId, session, lastOp>>
    /\ StoreUnchanged

Next ==
    \/ \E s \in Sessions : Mount(s)
    \/ \E s \in Sessions : FetchTimeLogsDone(s)
    \/ \E s \in Sessions : FetchTasksDone(s)
    \/ \E s \in Sessions : CheckActiveLogQuery(s)
    \/ \E s \in Sessions : CheckActiveLogDone(s)
    \/ \E s \in Sessions, t \in TaskIds : StartTimer(s, t)
    \/ \E s \in Sessions : StartTimerDone(s)
    \/ \E s \in Sessions : StopTimer(s)
    \/ \E s \in Sessions : StopTimerDone(s)
    \/ \E s \in Sessions, t \in TaskIds : HandleManualEntry(s, t, 0, 90, Today)
    \/ Tick

Spec == Init /\ [][Next]_vars

----------------------------------------------------------------------------
(* The store's row commands on time_logs, issued by any signed-in caller
   through the data-access layer (Database.time_logs Insert / Update), each
   judged by the policies of its command. *)

\* Values a caller may send: the required columns, alone or with optional ones.
InsertValues(users, taskIds, times, optional) ==
    LET required == {[user_id |-> u, task_id |-> t, start_time |-> st, date |-> Today] :
                        u \in users, t \in taskIds, st \in times}
    IN  required \cup {v @@ o : v \in required, o \in optional}

ApprovalPatches == {[approval_status |-> a] : a \in ApprovalStatuses}

EndTimePatches(times) == {[end_time |-> Some(t)] : t \in times} \cup {[end_time |-> NULL]}

DurationPatches == {[duration_minutes |-> Some(7)], [duration_minutes |-> NULL]}

InsertTimeLog(caller, vals) ==
    LET row == InsertedTimeLog(nextId, vals)
        ok  == TimeLogsInsertCheck(caller, row)
    IN  /\ nextId <= MaxStoreLogs
        /\ time_logs' = IF ok THEN time_logs \cup {row} ELSE time_logs
        /\ nextId' = IF ok THEN nextId + 1 ELSE nextId
        /\ lastOp' = [op |-> "insert", caller |-> caller, id |-> Some(row.id), ok |-> ok]
        /\ UNCHANGED <<now, session>>
        /\ StoreUnchanged

UpdateTimeLog(caller, id, patch) ==
    /\ RowsById(id) # {}
    /\ time_logs' = UpdateTimeLogs(caller, RowsById(id), patch)
    /\ lastOp' = [op |-> "update", caller |-> caller, id |-> Some(id),
                  ok |-> ~UpdateError(caller, RowsById(id), patch)]
    /\ UNCHANGED <<nextId, now, session>>
    /\ StoreUnchanged

DeleteTimeLog(caller, id) ==
    /\ RowsById(id) # {}
    /\ time_logs' = DeleteTimeLogs(caller, RowsById(id))
    /\ lastOp' = [op |-> "delete", caller |-> caller, id |-> Some(id), ok |-> TRUE]
    /\ UNCHANGED <<nextId, now, session>>
    /\ StoreUnchanged

\* Callers of every role insert, update and delete time logs.
NextStore ==
    \/ \E c \in Users :
          \E v \in InsertValues(Users, TaskIds, {0},
                                ApprovalPatches \cup {[end_time |-> Some(90)]}) :
              InsertTimeLog(c, v)
    \/ \E c \in Users, id \in 1..MaxStoreLogs :
          \E p \in ApprovalPatches \cup EndTimePatches({90}) : UpdateTimeLog(c, id, p)
    \/ \E c \in Users, id \in 1..MaxStoreLogs : DeleteTimeLog(c, id)

SpecStore == Init /\ [][NextStore]_vars

\* The owner and the admin write every time and duration column.
NextDuration ==
    \/ \E c \in {"u1", "u3"} :
          \E v \in InsertValues({"u3"}, {1, 2}, FormTimes,
                                {[end_time |-> Some(t)] : t \in FormTimes}
                                \cup {[end_time |-> Some(t), duration_minutes |-> Some(7)] :
                                         t \in FormTimes}
                                \cup {[duration_minutes |-> Some(7)]}) :
              InsertTimeLog(c, v)
    \/ \E c \in {"u1", "u3"}, id \in 1..MaxStoreLogs :
          \E p \in {[start_time |-> t] : t \in FormTimes} \cup EndTimePatches(FormTimes)
                    \cup DurationPatches \cup ApprovalPatches :
              UpdateTimeLog(c, id, p)

SpecDuration == Init /\ [][NextDuration]_vars

\* One TimeTracking page submits manual entries; callers of every role then
\* update the approval status of the rows.
NextManual ==
    \/ Mount("s1")
    \/ FetchTimeLogsDone("s1")
    \/ FetchTasksDone("s1")
    \/ \E t \in TaskIds, et \in FormTimes, d \in FormDates :
          nextId <= MaxStoreLogs /\ HandleManualEntry("s1", t, 0, et, d)
    \/ \E c \in Users, id \in 1..MaxStoreLogs :
          \E p \in ApprovalPatches : UpdateTimeLog(c, id, p)

SpecManual == Init /\ [][NextManual]_vars

----------------------------------------------------------------------------
(* profiles: row-level policies of UPDATE, and the Users page *)

UsersCanUpdateOwnProfileUsing(uid, old) == uid = old.id

UsersCanUpdateOwnProfileCheck_idOnly(uid, new) == uid = new.id

\* The sub-selects read the caller's stored row, as it is before the update.
UsersCanUpdateOwnProfileCheck(uid, new) ==
    /\ uid = new.id
    /\ \E id \in DOMAIN profiles : id = uid /\ new.role = profiles[id].role
    /\ \E id \in DOMAIN profiles : id = uid /\ new.status = profiles[id].status

AdminsCanUpdateAllProfilesUsing(uid, old) == IsAdmin(uid)

AdminsCanUpdateAllProfilesCheck(uid, new) == IsAdmin(uid)

ProfilesUpdateUsing(uid, old) ==
    \/ UsersCanUpdateOwnProfileUsing(uid, old)
    \/ AdminsCanUpdateAllProfilesUsing(uid, old)

ProfilesUpdateCheck(uid, new) ==
    \/ UsersCanUpdateOwnProfileCheck(uid, new)
    \/ AdminsCanUpdateAllProfilesCheck(uid, new)

ProfileRow(id) == [id |-> id] @@ profiles[id]

PatchedProfile(id, patch) ==
    [c \in DOMAIN ProfileRow(id) |->
        IF c \in DOMAIN patch THEN patch[c] ELSE ProfileRow(id)[c]]

\* UPDATE profiles SET patch WHERE id = id, by uid: "skipped" when no row
\* passes USING, "error" when the new row fails WITH CHECK, else "updated".
ProfileUpdateOutcome(uid, id, patch) ==
    IF id \notin DOMAIN profiles \/ ~ProfilesUpdateUsing(uid, ProfileRow(id))
    THEN "skipped"
    ELSE IF ~ProfilesUpdateCheck(uid, PatchedProfile(id, patch)) THEN "error"
    ELSE "updated"

UpdateProfiles(uid, id, patch) ==
    IF ProfileUpdateOutcome(uid, id, patch) = "updated"
    THEN [profiles EXCEPT ![id] =
            [c \in DOMAIN profiles[id] |-> PatchedProfile(id, patch)[c]]]
    ELSE profiles

ProfileUnchanged == UNCHANGED <<projects, project_members, tasks, time_logs, nextId,
                               now, session>>

\* Any caller's own-profile or admin update through the data-access layer.
UpdateProfile(caller, id, patch) ==
    /\ profiles' = UpdateProfiles(caller, id, patch)
    /\ lastOp' = [op |-> "updateProfile", caller |-> caller, id |-> Some(id),
                  ok |-> ProfileUpdateOutcome(caller, id, patch) # "error"]
    /\ ProfileUnchanged

\* Users.handleSubmit: the page is rendered only while the client's cached
\* isAdmin holds; the form writes role and status of the edited user.
UsersHandleSubmit(caller, isAdmin, editingUser, formData) ==
    /\ isAdmin
    /\ profiles' = UpdateProfiles(caller, editingUser,
                                  [role |-> formData.role, status |-> formData.status])
    /\ lastOp' = [op |-> "handleSubmit", caller |-> caller, id |-> Some(editingUser),
                  ok |-> ProfileUpdateOutcome(caller, editingUser,
                             [role |-> formData.role, status |-> formData.status]) # "error"]
    /\ ProfileUnchanged

\* Users.toggleUserStatus: flips the status the fetched list shows for user.
ToggleUserStatus(caller, isAdmin, user, shownStatus) ==
    LET newStatus == IF shownStatus = "active" THEN "inactive" ELSE "active"
    IN  /\ isAdmin
        /\ profiles' = UpdateProfiles(caller, user, [status |-> newStatus])
        /\ lastOp' = [op |-> "toggleUserStatus", caller |-> caller, id |-> Some(user),
                      ok |-> ProfileUpdateOutcome(caller, user, [status |-> newStatus]) # "error"]
        /\ ProfileUnchanged

FullNames == {"a", "b"}

ProfilePatches ==
    {[full_name |-> n] : n \in FullNames}
    \cup {[role |-> r] : r \in Roles}
    \cup {[status |-> st] : st \in Statuses}

NextProfiles ==
    \/ \E c \in Users, id \in Users, p \in ProfilePatches : UpdateProfile(c, id, p)
    \/ \E c \in Users, a \in BOOLEAN, id \in Users, r \in Roles, st \in Statuses :
          UsersHandleSubmit(c, a, id, [role |-> r, status |-> st])
    \/ \E c \in Users, a \in BOOLEAN, id \in Users, st \in Statuses :
          ToggleUserStatus(c, a, id, st)

SpecProfiles == Init /\ [][NextProfiles]_vars

----------------------------------------------------------------------------
(* profiles: INSERT policy and registration *)

\* Accounts of auth.users that have no profiles row in the initial state.
NewUsers == {"u4"}

AuthUsers == Users \cup NewUsers

AdminsCanInsertProfiles(uid, new) == IsAdmin(uid)

\* CREATE TABLE profiles: role and status take their defaults when left out.
ProfileDefaults(vals) ==
    [full_name |-> vals.full_name,
     role      |-> IF "role" \in DOMAIN vals THEN vals.role ELSE "employee",
     status    |-> IF "status" \in DOMAIN vals THEN vals.status ELSE "active"]

\* supabase.from('profiles').insert({id, ...}) by caller.
InsertProfile(caller, id, vals) ==
    LET ok == AdminsCanInsertProfiles(caller, [id |-> id] @@ ProfileDefaults(vals))
    IN  /\ id \notin DOMAIN profiles
        /\ profiles' = IF ok THEN (id :> ProfileDefaults(vals)) @@ profiles ELSE profiles
        /\ lastOp' = [op |-> "insertProfile", caller |-> caller, id |-> Some(id), ok |-> ok]
        /\ ProfileUnchanged

ProfileInsertValues ==
    {[full_name |-> "a"]} \cup {[full_name |-> "a", role |-> r] : r \in Roles}

NextRegistration ==
    \/ \E c \in AuthUsers, id \in NewUsers, v \in ProfileInsertValues :
          InsertProfile(c, id, v)
    \/ \E c \in AuthUsers, id \in AuthUsers, r \in Roles :
          id \in DOMAIN profiles /\ UpdateProfile(c, id, [role |-> r])

SpecRegistration == Init /\ [][NextRegistration]_vars

----------------------------------------------------------------------------
(* tasks, projects, project_members: row-level policies and row commands *)

IsProjectMember(uid, pid) ==
    \E m \in project_members : Some(m[1]) = pid /\ m[2] = uid

UsersCanViewOwnTasks(uid, row) ==
    row.assigned_to = Some(uid) \/ row.created_by = uid

AdminsCanViewAllTasks(uid, row) == IsAdmin(uid)

ProjectManagersCanViewProjectTasks_byRole(uid, row) ==
    \E id \in DOMAIN profiles : id = uid /\ profiles[id].role = "project_manager"

ProjectManagersCanViewProjectTasks(uid, row) == ManagesProject(uid, row.project_id)

ProjectMembersCanViewProjectTasks(uid, row) == IsProjectMember(uid, row.project_id)

TasksSelect(uid, row) ==
    \/ UsersCanViewOwnTasks(uid, row)
    \/ AdminsCanViewAllTasks(uid, row)
    \/ ProjectManagersCanViewProjectTasks(uid, row)
    \/ ProjectMembersCanViewProjectTasks(uid, row)

UsersCanCreateTasks_anyCreator(uid, new) ==
    \/ new.project_id = NULL
    \/ IsAdmin(uid)
    \/ ManagesProject(uid, new.project_id)
    \/ IsProjectMember(uid, new.project_id)

UsersCanCreateTasks(uid, new) ==
    /\ new.created_by = uid
    /\ \/ new.project_id = NULL
       \/ IsAdmin(uid)
       \/ ManagesProject(uid, new.project_id)
       \/ IsProjectMember(uid, new.project_id)

AdminsCanInsertProjectMembers(uid, new) == IsAdmin(uid)

AdminsCanDeleteProjectMembers(uid, old) == IsAdmin(uid)

AdminsCanUpdateAllProjectsUsing(uid, old) == IsAdmin(uid)

AdminsCanUpdateAllProjectsCheck(uid, new) == IsAdmin(uid)

ProjectManagersCanUpdateTheirProjectsUsing(uid, old) == old.manager_id = Some(uid)

ProjectManagersCanUpdateTheirProjectsCheck(uid, new) == new.manager_id = Some(uid)

ProjectsUpdateUsing(uid, old) ==
    \/ AdminsCanUpdateAllProjectsUsing(uid, old)
    \/ ProjectManagersCanUpdateTheirProjectsUsing(uid, old)

ProjectsUpdateCheck(uid, new) ==
    \/ AdminsCanUpdateAllProjectsCheck(uid, new)
    \/ ProjectManagersCanUpdateTheirProjectsCheck(uid, new)

TaskUnchanged == UNCHANGED <<profiles, time_logs, nextId, now, session>>

\* INSERT INTO tasks: the new row gets the next id when WITH CHECK passes.
InsertTask(caller, new) ==
    LET id == Cardinality(DOMAIN tasks) + 1
        ok == UsersCanCreateTasks(caller, new)
    IN  /\ Cardinality(DOMAIN tasks) < MaxTasks
        /\ tasks' = IF ok THEN (id :> new) @@ tasks ELSE tasks
        /\ lastOp' = [op |-> "insertTask", caller |-> caller, id |-> Some(id), ok |-> ok]
        /\ UNCHANGED <<projects, project_members>>
        /\ TaskUnchanged

InsertProjectMember(caller, pid, uid) ==
    LET ok == AdminsCanInsertProjectMembers(caller, <<pid, uid>>)
    IN  /\ <<pid, uid>> \notin project_members
        /\ project_members' = IF ok THEN project_members \cup {<<pid, uid>>}
                               ELSE project_members
        /\ lastOp' = [op |-> "insertProjectMember", caller |-> caller, id |-> NULL,
                      project |-> pid, ok |-> ok]
        /\ UNCHANGED <<projects, tasks>>
        /\ TaskUnchanged

DeleteProjectMember(caller, pid, uid) ==
    /\ <<pid, uid>> \in project_members
    /\ project_members' = IF AdminsCanDeleteProjectMembers(caller, <<pid, uid>>)
                           THEN project_members \ {<<pid, uid>>}
                           ELSE project_members
    /\ lastOp' = [op |-> "deleteProjectMember", caller |-> caller, id |-> NULL,
                  project |-> pid, ok |-> TRUE]
    /\ UNCHANGED <<projects, tasks>>
    /\ TaskUnchanged

\* UPDATE projects SET manager_id = managerId WHERE id = pid.
UpdateProjectManager(caller, pid, managerId) ==
    LET old == projects[pid]
        new == [old EXCEPT !.manager_id = managerId]
        visible == ProjectsUpdateUsing(caller, old)
        ok == ~visible \/ ProjectsUpdateCheck(caller, new)
    IN  /\ projects' = IF visible /\ ok THEN [projects EXCEPT ![pid] = new] ELSE projects
        /\ lastOp' = [op |-> "updateProject", caller |-> caller, id |-> NULL,
                      project |-> pid, ok |-> ok]
        /\ UNCHANGED <<project_members, tasks>>
        /\ TaskUnchanged

NewTasks ==
    {[project_id |-> p, assigned_to |-> a, created_by |-> c, status |-> "to_do",
      end_date |-> NULL] :
        p \in {NULL} \cup {Some(x) : x \in ProjectIds},
        a \in {NULL} \cup {Some(x) : x \in Users \ {"u1"}},
        c \in Users}

NextTasks ==
    \/ \E c \in Users, t \in NewTasks : InsertTask(c, t)
    \/ \E c \in Users, p \in ProjectIds, u \in Users : InsertProjectMember(c, p, u)
    \/ \E c \in Users, p \in ProjectIds, u \in Users : DeleteProjectMember(c, p, u)
    \/ \E c \in Users, p \in ProjectIds, m \in {NULL} \cup {Some(x) : x \in Users} :
          UpdateProjectManager(c, p, m)

SpecTasks == Init /\ [][NextTasks]_vars

----------------------------------------------------------------------------
(* tasks: UPDATE and DELETE policies, row commands and the Tasks page *)

TaskStatuses == {"to_do", "in_progress", "completed", "on_hold"}

UsersCanUpdateOwnTasksUsing(uid, old) ==
    old.created_by = uid \/ old.assigned_to = Some(uid)

UsersCanUpdateOwnTasksCheck(uid, new) ==
    new.created_by = uid \/ new.assigned_to = Some(uid)

AdminsCanUpdateAllTasksUsing(uid, old) == IsAdmin(uid)

AdminsCanUpdateAllTasksCheck(uid, new) == IsAdmin(uid)

ProjectManagersCanUpdateProjectTasksUsing(uid, old) == ManagesProject(uid, old.project_id)

ProjectManagersCanUpdateProjectTasksCheck(uid, new) == ManagesProject(uid, new.project_id)

TasksUpdateUsing_everyone(uid, old) == TRUE

TasksUpdateUsing(uid, old) ==
    \/ UsersCanUpdateOwnTasksUsing(uid, old)
    \/ AdminsCanUpdateAllTasksUsing(uid, old)
    \/ ProjectManagersCanUpdateProjectTasksUsing(uid, old)

TasksUpdateCheck(uid, new) ==
    \/ UsersCanUpdateOwnTasksCheck(uid, new)
    \/ AdminsCanUpdateAllTasksCheck(uid, new)
    \/ ProjectManagersCanUpdateProjectTasksCheck(uid, new)

AdminsCanDeleteTasks(uid, old) == IsAdmin(uid)

\* The row after SET patch: the patched columns replace the old ones.
UpdatedTask(old, patch) ==
    [c \in DOMAIN old |-> IF c \in DOMAIN patch THEN patch[c] ELSE old[c]]

\* "skipped": USING hides the row, nothing changes and no error is raised;
\* "error": the new row fails WITH CHECK and the statement is rolled back.
TaskUpdateOutcome(uid, id, patch) ==
    IF id \notin DOMAIN tasks \/ ~TasksUpdateUsing(uid, tasks[id]) THEN "skipped"
    ELSE IF ~TasksUpdateCheck(uid, UpdatedTask(tasks[id], patch)) THEN "error"
    ELSE "updated"

\* supabase.from('tasks').update(patch).eq('id', id)
UpdateTask(caller, id, patch) ==
    LET outcome == TaskUpdateOutcome(caller, id, patch)
    IN  /\ id \in DOMAIN tasks
        /\ tasks' = IF outcome = "updated"
                    THEN [tasks EXCEPT ![id] = UpdatedTask(tasks[id], patch)]
                    ELSE tasks
        /\ lastOp' = [op |-> "updateTask", caller |-> caller, id |-> Some(id),
                      ok |-> outcome # "error"]
        /\ UNCHANGED <<projects, project_members>>
        /\ TaskUnchanged

\* supabase.from('tasks').delete().eq('id', id): time_logs.task_id cascades.
DeleteTask(caller, id) ==
    LET visible == AdminsCanDeleteTasks(caller, tasks[id])
    IN  /\ id \in DOMAIN tasks
        /\ tasks' = IF visible THEN [t \in DOMAIN tasks \ {id} |-> tasks[t]] ELSE tasks
        /\ time_logs' = IF visible THEN {r \in time_logs : r.task_id # id} ELSE time_logs
        /\ lastOp' = [op |-> "deleteTask", caller |-> caller, id |-> Some(id), ok |-> TRUE]
        /\ UNCHANGED <<profiles, projects, project_members, nextId, now, session>>

\* value || '' of openEditModal, and value || null of handleSubmit.
OrEmpty(x) == IF x = NULL THEN "" ELSE Val(x)

OrNull(str) == IF str = "" THEN NULL ELSE Some(str)

\* A date column read into the form: task.end_date || ''.
DateString(x) == IF x = NULL THEN "" ELSE ToString(Val(x))

\* Input of a date column: '' is no date (invalid input syntax), and the
\* statement fails.  end_date stands for start_date too: the form treats
\* both alike.
TaskDays == 0..MaxDays

TaskDateIn(str) ==
    IF \E d \in TaskDays : ToString(d) = str
    THEN [ok |-> TRUE, value |-> Some(CHOOSE d \in TaskDays : ToString(d) = str)]
    ELSE [ok |-> FALSE, value |-> NULL]

\* Tasks.handleSubmit with editingTask set, the modal opened on the row as
\* it is and the date fields left as openEditModal filled them: the form's
\* columns and created_by: profile.id are written to the edited row.
TasksHandleSubmitEdit(caller, id, projectId, assignedTo, status) ==
    LET date == TaskDateIn(DateString(tasks[id].end_date))
    IN  /\ id \in DOMAIN tasks
        /\ TasksSelect(caller, tasks[id])
        /\ IF date.ok
           THEN UpdateTask(caller, id, [created_by |-> caller, project_id |-> projectId,
                                        assigned_to |-> assignedTo, status |-> status,
                                        end_date |-> date.value])
           ELSE /\ lastOp' = [op |-> "updateTask", caller |-> caller, id |-> Some(id),
                              ok |-> FALSE]
                /\ UNCHANGED <<projects, project_members, tasks>>
                /\ TaskUnchanged

\* Tasks.handleStatusChange on a listed task.
TasksHandleStatusChange(caller, id, newStatus) ==
    /\ id \in DOMAIN tasks
    /\ TasksSelect(caller, tasks[id])
    /\ UpdateTask(caller, id, [status |-> newStatus])

\* Tasks.handleDelete: the button is rendered for admins only.
TasksHandleDelete(caller, id) ==
    /\ IsAdmin(caller)
    /\ id \in DOMAIN tasks
    /\ TasksSelect(caller, tasks[id])
    /\ DeleteTask(caller, id)

TaskPatches ==
    {[status |-> "completed"]}
    \cup {[created_by |-> c] : c \in Users}
    \cup {[assigned_to |-> a] : a \in {NULL, Some("u3")}}
    \cup {[project_id |-> p] : p \in {NULL, Some("p1")}}

\* Tasks 1 (a project task) and 2 (a personal task) are the rows written to.
NextTaskWrites ==
    \/ \E c \in Users, t \in {1, 2}, p \in TaskPatches : UpdateTask(c, t, p)
    \/ UpdateTask("u1", 1, [end_date |-> Some(0)])
    \/ \E c \in Users, t \in TaskIds : DeleteTask(c, t)
    \/ \E c \in Users, t \in {1, 2}, a \in {NULL, Some("u3")} :
          TasksHandleSubmitEdit(c, t, tasks[t].project_id, a, tasks[t].status)
    \/ \E c \in Users, t \in {1, 2} : TasksHandleStatusChange(c, t, "completed")
    \/ \E c \in Users, t \in TaskIds : TasksHandleDelete(c, t)

SpecTaskWrites == Init /\ [][NextTaskWrites]_vars

----------------------------------------------------------------------------
(* projects: SELECT, INSERT and DELETE policies, row commands, Projects page *)

\* gen_random_uuid() for a new project row.
NewProjectIds == {"p2"}

AdminsCanViewAllProjects(uid, row) == IsAdmin(uid)

ProjectManagersCanViewTheirProjects(uid, row) ==
    \/ row.manager_id = Some(uid)
    \/ \E id \in DOMAIN profiles :
          id = uid /\ profiles[id].role \in {"admin", "project_manager"}

ProjectMembersCanViewAssignedProjects(uid, row) == IsProjectMember(uid, Some(row.id))

ProjectsSelect(uid, row) ==
    \/ AdminsCanViewAllProjects(uid, row)
    \/ ProjectManagersCanViewTheirProjects(uid, row)
    \/ ProjectMembersCanViewAssignedProjects(uid, row)

AdminsCanInsertProjects_everyone(uid, new) == TRUE

AdminsCanInsertProjects(uid, new) == IsAdmin(uid)

AdminsCanDeleteProjects(uid, old) == IsAdmin(uid)

ProjectRow(id) == [id |-> id] @@ projects[id]

\* Columns an insert leaves out are null (none of the four has a DEFAULT).
ProjectDefaults(vals) ==
    [c \in {"manager_id", "description", "start_date", "end_date"} |->
        IF c \in DOMAIN vals THEN vals[c] ELSE NULL]

ProjectUnchanged == UNCHANGED <<profiles, nextId, now, session>>

\* INSERT INTO projects: one new row when WITH CHECK passes, else an error.
InsertProject(caller, vals) ==
    LET id == CHOOSE p \in NewProjectIds : p \notin DOMAIN projects
        ok == AdminsCanInsertProjects(caller, ProjectDefaults(vals))
    IN  /\ NewProjectIds \ DOMAIN projects # {}
        /\ projects' = IF ok THEN (id :> ProjectDefaults(vals)) @@ projects ELSE projects
        /\ lastOp' = [op |-> "insertProject", caller |-> caller, id |-> NULL,
                      project |-> id, ok |-> ok]
        /\ UNCHANGED <<project_members, tasks, time_logs>>
        /\ ProjectUnchanged

\* UPDATE projects SET patch WHERE id = pid.
UpdateProject(caller, pid, patch) ==
    LET old == projects[pid]
        new == [c \in DOMAIN old |-> IF c \in DOMAIN patch THEN patch[c] ELSE old[c]]
        visible == ProjectsUpdateUsing(caller, old)
        ok == ~visible \/ ProjectsUpdateCheck(caller, new)
    IN  /\ pid \in DOMAIN projects
        /\ projects' = IF visible /\ ok THEN [projects EXCEPT ![pid] = new] ELSE projects
        /\ lastOp' = [op |-> "updateProject", caller |-> caller, id |-> NULL,
                      project |-> pid, ok |-> ok]
        /\ UNCHANGED <<project_members, tasks, time_logs>>
        /\ ProjectUnchanged

\* DELETE FROM projects WHERE id = pid: project_members, tasks and time_logs
\* of the project go with it (ON DELETE CASCADE), and so do the time logs of
\* the deleted tasks.
DeleteProject(caller, pid) ==
    LET visible == AdminsCanDeleteProjects(caller, projects[pid])
        gone == {t \in DOMAIN tasks : tasks[t].project_id = Some(pid)}
    IN  /\ pid \in DOMAIN projects
        /\ lastOp' = [op |-> "deleteProject", caller |-> caller, id |-> NULL,
                      project |-> pid, ok |-> TRUE]
        /\ IF visible
           THEN /\ projects' = [p \in DOMAIN projects \ {pid} |-> projects[p]]
                /\ project_members' = {m \in project_members : m[1] # pid}
                /\ tasks' = [t \in DOMAIN tasks \ gone |-> tasks[t]]
                /\ time_logs' = {r \in time_logs :
                                    r.project_id # Some(pid) /\ r.task_id \notin gone}
           ELSE UNCHANGED <<projects, project_members, tasks, time_logs>>
        /\ ProjectUnchanged

\* What the columns' input functions make of the JSON strings of a request:
\* text takes any string, the empty one included; uuid and date reject a
\* string that is not a uuid or a date ("invalid input syntax"), and the
\* statement fails.
TextIn(str) == [ok |-> TRUE, value |-> Some(str)]

UuidIn(str) == [ok |-> str \in Users, value |-> Some(str)]

FormDateStrings == {"", "2025-01-01"}

DateIn(str) == [ok |-> str \in FormDateStrings \ {""}, value |-> Some(str)]

\* Projects.resetForm: the state of the form when the modal opens for a new
\* project (name and status are not modelled).
EmptyProjectForm ==
    [description |-> "", manager_id |-> "", start_date |-> "", end_date |-> ""]

\* Projects.handleSubmit with editingProject = null: insert([formData]).  The
\* New Project button is rendered for admins only.
ProjectsHandleSubmit(caller, formData) ==
    LET description == TextIn(formData.description)
        manager_id == UuidIn(formData.manager_id)
        start_date == DateIn(formData.start_date)
        end_date == DateIn(formData.end_date)
    IN  /\ IsAdmin(caller)
        /\ IF description.ok /\ manager_id.ok /\ start_date.ok /\ end_date.ok
           THEN InsertProject(caller,
                    [description |-> description.value, manager_id |-> manager_id.value,
                     start_date |-> start_date.value, end_date |-> end_date.value])
           ELSE /\ NewProjectIds \ DOMAIN projects # {}
                /\ lastOp' = [op |-> "insertProject", caller |-> caller, id |-> NULL,
                              project |-> "", ok |-> FALSE]
                /\ UNCHANGED <<projects, project_members, tasks, time_logs>>
                /\ ProjectUnchanged

\* Projects.handleDelete: the button is rendered for admins only.
ProjectsHandleDelete(caller, pid) ==
    /\ IsAdmin(caller)
    /\ pid \in DOMAIN projects
    /\ ProjectsSelect(caller, ProjectRow(pid))
    /\ DeleteProject(caller, pid)

\* supabase.from('projects').select('*'): the rows the SELECT policies show.
FetchProjectsResult(uid) ==
    {ProjectRow(p) : p \in {q \in DOMAIN projects : ProjectsSelect(uid, ProjectRow(q))}}

\* Projects.fetchProjects
FetchProjects(caller) ==
    /\ lastOp' = [op |-> "fetchProjects", caller |-> caller, id |-> NULL, project |-> "",
                  ok |-> TRUE, rows |-> FetchProjectsResult(caller)]
    /\ UNCHANGED <<projects, project_members, tasks, time_logs>>
    /\ ProjectUnchanged

ProjectForms ==
    {[description |-> d, manager_id |-> m, start_date |-> sd, end_date |-> ed] :
        d \in {"", "d"}, m \in {"", "u2"}, sd \in FormDateStrings, ed \in FormDateStrings}

ProjectInsertValues ==
    {<<>>, [manager_id |-> Some("u2")], [manager_id |-> Some("u3")]}

ProjectPatches ==
    {[manager_id |-> m] : m \in {NULL, Some("u2"), Some("u3")}}
    \cup {[description |-> Some("d")]}

AllProjectIds == ProjectIds \cup NewProjectIds

NextProjects ==
    \/ \E c \in Users, v \in ProjectInsertValues : InsertProject(c, v)
    \/ \E c \in Users, p \in AllProjectIds, v \in ProjectPatches : UpdateProject(c, p, v)
    \/ \E c \in Users, p \in AllProjectIds : DeleteProject(c, p)
    \/ \E c \in Users, f \in ProjectForms : ProjectsHandleSubmit(c, f)
    \/ \E c \in Users, p \in AllProjectIds : ProjectsHandleDelete(c, p)
    \/ \E c \in Users : FetchProjects(c)
    \/ \E p \in AllProjectIds : p \in DOMAIN projects /\ InsertProjectMember("u1", p, "u2")
    \/ \E p \in AllProjectIds : DeleteProjectMember("u1", p, "u2")

SpecProjects == Init /\ [][NextProjects]_vars

----------------------------------------------------------------------------
(* Dashboard and Reports: the figures computed from the fetched rows *)

\* new Date('YYYY-MM-DD'): midnight UTC of that day, on the clock of `now`.
NewDate(day) == day * SecondsPerDay

\* tasksQuery: the rows the SELECT policies show, narrowed for a non-admin
\* to assigned_to = profile.id OR created_by = profile.id.
DashboardTasks(uid, isAdmin) ==
    {t \in DOMAIN tasks :
        /\ TasksSelect(uid, tasks[t])
        /\ isAdmin \/ tasks[t].assigned_to = Some(uid) \/ tasks[t].created_by = uid}

IsOverdue_ignoringStatus(t) ==
    t.end_date # NULL /\ NewDate(Val(t.end_date)) < now

\* t.end_date && new Date(t.end_date) < new Date() && t.status !== 'completed'
IsOverdue(t) ==
    /\ t.end_date # NULL
    /\ NewDate(Val(t.end_date)) < now
    /\ t.status # "completed"

\* projectsQuery, narrowed for a non-admin to manager_id = profile.id.
DashboardProjects(uid, isAdmin) ==
    {p \in DOMAIN projects :
        /\ ProjectsSelect(uid, ProjectRow(p))
        /\ isAdmin \/ projects[p].manager_id = Some(uid)}

DashboardTimeLogs_allUsers(uid, isAdmin) ==
    {r \in time_logs : TimeLogsSelect(uid, r) /\ r.date = Today}

\* timeQuery: today's rows, narrowed for a non-admin to user_id = profile.id.
DashboardTimeLogs(uid, isAdmin) ==
    {r \in time_logs :
        /\ TimeLogsSelect(uid, r)
        /\ r.date = Today
        /\ isAdmin \/ r.user_id = uid}

\* reduce((sum, log) => sum + (log.duration_minutes || 0), 0)
RECURSIVE SumMinutes(_)
SumMinutes(rows) ==
    IF rows = {} THEN 0
    ELSE LET r == CHOOSE x \in rows : TRUE
         IN  (IF r.duration_minutes = NULL THEN 0 ELSE Val(r.duration_minutes))
             + SumMinutes(rows \ {r})

\* Dashboard.fetchDashboardData, for a loaded profile.
FetchDashboardData(caller, isAdmin) ==
    LET fetched == DashboardTasks(caller, isAdmin)
    IN  /\ caller \in DOMAIN profiles
        /\ lastOp' =
              [op |-> "fetchDashboardData", caller |-> caller, id |-> NULL, ok |-> TRUE,
               isAdmin |-> isAdmin,
               stats |->
                 [totalTasks      |-> Cardinality(fetched),
                  inProgressTasks |->
                      Cardinality({t \in fetched : tasks[t].status = "in_progress"}),
                  completedTasks  |->
                      Cardinality({t \in fetched : tasks[t].status = "completed"}),
                  totalProjects   |-> Cardinality(DashboardProjects(caller, isAdmin)),
                  totalTimeToday  |-> SumMinutes(DashboardTimeLogs(caller, isAdmin)),
                  overdueTasks    |->
                      Cardinality({t \in fetched : IsOverdue(tasks[t])})]]
        /\ UNCHANGED <<projects, project_members, tasks, time_logs>>
        /\ ProjectUnchanged

\* Math.round((minutes / 60) * 10) / 10, kept in tenths of an hour.
RoundTenthsOfHours(minutes) == (minutes * 10 + 30) \div 60

UsersCanViewOwnProfile(uid, row) == uid = row.id

AdminsCanViewAllProfiles(uid, row) == IsAdmin(uid)

ProfilesSelect(uid, row) ==
    UsersCanViewOwnProfile(uid, row) \/ AdminsCanViewAllProfiles(uid, row)

\* tasks.reduce(acc[task.status] = (acc[task.status] || 0) + 1): the number
\* of fetched tasks of each status that occurs.
StatusCounts(fetched) ==
    [st \in {tasks[t].status : t \in fetched} |->
        Cardinality({t \in fetched : tasks[t].status = st})]

ProjectTasks_withPersonal(uid, p) ==
    {t \in DOMAIN tasks :
        /\ TasksSelect(uid, tasks[t])
        /\ tasks[t].project_id = Some(p) \/ tasks[t].project_id = NULL}

\* from('tasks').select('status').eq('project_id', project.id)
ProjectTasks(uid, p) ==
    {t \in DOMAIN tasks : TasksSelect(uid, tasks[t]) /\ tasks[t].project_id = Some(p)}

\* progressData: total and completed of each fetched project.
ProjectProgress(uid) ==
    [p \in {x \in DOMAIN projects : ProjectsSelect(uid, ProjectRow(x))} |->
        [total     |-> Cardinality(ProjectTasks(uid, p)),
         completed |-> Cardinality({t \in ProjectTasks(uid, p) :
                                       tasks[t].status = "completed"})]]

\* Reports.fetchReports on a fresh page: the task and project figures, then
\* the time figures.  userProductivity
\* is computed only under isAdmin || isProjectManager; it maps each fetched
\* profile to the minutes of the fetched logs of that user, and the Team
\* Productivity chart is rendered under the same flags when it is not empty.
FetchReports(caller, isAdmin, isProjectManager) ==
    LET timeLogs == {r \in time_logs : TimeLogsSelect(caller, r)}
        fetchedProfiles == {u \in DOMAIN profiles : ProfilesSelect(caller, ProfileRow(u))}
        userStats == [u \in fetchedProfiles |->
                        SumMinutes({r \in timeLogs : r.user_id = u})]
    IN  /\ lastOp' =
              [op |-> "fetchReports", caller |-> caller, id |-> NULL, ok |-> TRUE,
               taskStats |-> StatusCounts({t \in DOMAIN tasks : TasksSelect(caller, tasks[t])}),
               projectProgress |-> ProjectProgress(caller),
               computed |-> isAdmin \/ isProjectManager,
               chartShown |-> (isAdmin \/ isProjectManager) /\ fetchedProfiles # {},
               userMinutes |-> IF isAdmin \/ isProjectManager THEN userStats ELSE <<>>,
               totalMinutes |-> SumMinutes(timeLogs),
               totalHours |-> RoundTenthsOfHours(SumMinutes(timeLogs))]
        /\ UNCHANGED <<projects, project_members, tasks, time_logs>>
        /\ ProjectUnchanged

\* A day passes.
NextDay ==
    /\ now < MaxDays * SecondsPerDay
    /\ now' = now + SecondsPerDay
    /\ UNCHANGED <<time_logs, nextId, session, lastOp>>
    /\ StoreUnchanged

DashboardTaskPatches ==
    {[end_date |-> d] : d \in {NULL, Some(0)}}
    \cup {[status |-> st] : st \in {"in_progress", "completed"}}

DashboardLogValues ==
    {[user_id |-> "u3", task_id |-> 2, start_time |-> 0, end_time |-> Some(90),
      date |-> Today, approval_status |-> "pending"]}

NextDashboard ==
    \/ \E t \in {1, 2}, p \in DashboardTaskPatches : UpdateTask("u1", t, p)
    \/ Tick
    \/ NextDay
    \/ \E v \in DashboardLogValues : InsertTimeLog("u3", v)
    \/ \E id \in 1..MaxStoreLogs : UpdateTimeLog("u1", id, [approval_status |-> "approved"])
    \/ \E c \in Users, a \in BOOLEAN : FetchDashboardData(c, a)
    \/ \E c \in Users, a \in BOOLEAN, m \in BOOLEAN : FetchReports(c, a, m)

SpecDashboard == Init /\ [][NextDashboard]_vars

\* The admin changes the status and the project of tasks 1 and 2, and every
\* user opens the Reports page.
NextReports ==
    \/ \E t \in {1, 2}, st \in {"in_progress", "completed"} :
          UpdateTask("u1", t, [status |-> st])
    \/ \E t \in {1, 2}, p \in {NULL, Some("p1")} : UpdateTask("u1", t, [project_id |-> p])
    \/ \E c \in Users, a \in BOOLEAN, m \in BOOLEAN : FetchReports(c, a, m)

SpecReports == Init /\ [][NextReports]_vars

\* The employee records time from the TimeTracking page, the manager and the
\* employee insert finished logs of project p1, days pass, and every user
\* opens the Dashboard with the isAdmin flag of their role.
TodayLogValues ==
    {[user_id |-> u, task_id |-> 1, project_id |-> Some("p1"), start_time |-> 0,
      end_time |-> Some(90), date |-> Today] : u \in {"u2", "u3"}}

NextTimeToday ==
    \/ Mount("s1")
    \/ FetchTimeLogsDone("s1")
    \/ FetchTasksDone("s1")
    \/ \E t \in {1, 2} : StartTimer("s1", t)
    \/ StartTimerDone("s1")
    \/ \E t \in {1, 2} : HandleManualEntry("s1", t, 0, 90, Today)
    \/ \E v \in TodayLogValues : InsertTimeLog(v.user_id, v)
    \/ NextDay
    \/ \E c \in Users : FetchDashboardData(c, IsAdmin(c))

SpecTimeToday == Init /\ [][NextTimeToday]_vars

----------------------------------------------------------------------------
(* Role-based views: Layout's menu, the Users page, Reports *)

\* useAuth().profile: the caller's profiles row once loaded, null before.
UseAuthProfile(uid, loaded) ==
    IF loaded /\ uid \in DOMAIN profiles THEN Some(profiles[uid]) ELSE NULL

\* useAuth().isAdmin and useAuth().isProjectManager
UseAuthIsAdmin(profile) == profile # NULL /\ Val(profile).role = "admin"

UseAuthIsProjectManager(profile) ==
    profile # NULL /\ Val(profile).role = "project_manager"

NavItems_usersForAll ==
    {[label |-> l, roles |-> Roles] :
        l \in {"Dashboard", "Projects", "Tasks", "Time Tracking", "Calendar", "Users"}}
    \cup {[label |-> "Reports", roles |-> {"admin", "project_manager"}]}

\* Layout.navItems
NavItems ==
    {[label |-> l, roles |-> Roles] :
        l \in {"Dashboard", "Projects", "Tasks", "Time Tracking", "Calendar"}}
    \cup {[label |-> "Reports", roles |-> {"admin", "project_manager"}],
          [label |-> "Users", roles |-> {"admin"}]}

\* Layout.filteredNavItems: item.roles.includes(profile?.role || 'employee')
FilteredNavItems(profile) ==
    LET role == IF profile = NULL THEN "employee" ELSE Val(profile).role
    IN  {item.label : item \in {i \in NavItems : role \in i.roles}}

ViewUnchanged ==
    UNCHANGED <<profiles, projects, project_members, tasks, time_logs, nextId, now,
                session>>

\* Layout renders the menu for the signed-in caller.
RenderLayout(caller, loaded) ==
    LET profile == UseAuthProfile(caller, loaded)
    IN  /\ lastOp' = [op |-> "renderLayout", caller |-> caller, id |-> NULL, ok |-> TRUE,
                      role |-> IF profile = NULL THEN NULL ELSE Some(Val(profile).role),
                      nav |-> FilteredNavItems(profile)]
        /\ ViewUnchanged

\* The Users page mounts: the effect returns before fetchUsers unless
\* isAdmin, and the component returns the no-permission message.
UsersPageMount(caller, loaded) ==
    LET profile == UseAuthProfile(caller, loaded)
        isAdmin == UseAuthIsAdmin(profile)
    IN  /\ lastOp' = [op |-> "usersPage", caller |-> caller, id |-> NULL, ok |-> TRUE,
                      role |-> IF profile = NULL THEN NULL ELSE Some(Val(profile).role),
                      fetchUsers |-> isAdmin,
                      view |-> IF isAdmin THEN "list" ELSE "noPermission"]
        /\ ViewUnchanged

\* The Reports page mounts and runs fetchReports under the caller's flags.
ReportsPageMount(caller, loaded) ==
    FetchReports(caller, UseAuthIsAdmin(UseAuthProfile(caller, loaded)),
                 UseAuthIsProjectManager(UseAuthProfile(caller, loaded)))

NextViews ==
    \/ \E id \in Users, r \in Roles : UpdateProfile("u1", id, [role |-> r])
    \/ \E c \in Users, l \in BOOLEAN : RenderLayout(c, l)
    \/ \E c \in Users, l \in BOOLEAN : UsersPageMount(c, l)
    \/ \E c \in Users, l \in BOOLEAN : ReportsPageMount(c, l)

SpecViews == Init /\ [][NextViews]_vars

----------------------------------------------------------------------------
(* One TimeTracking page of the employee whose requests may fail, while the
   admin reviews the time logs and the manager takes task 1 from the
   employee. *)

\* catch (error) of startTimer, stopTimer and handleManualEntry:
\* console.error only, no state setter is called.
CatchTimerError_clearActiveLog(s) == [session EXCEPT ![s].activeLog = NULL]

CatchTimerError(s) == session

\* startTimer(taskId) whose request does not reach the store: the client
\* library returns { error } and the handler throws into its catch.
StartTimerTransportFailure(s, taskId) ==
    /\ StartOffered(s)
    /\ taskId \in session[s].tasks
    /\ session' = CatchTimerError(s)
    /\ lastOp' = [op |-> "startTimer", caller |-> SessionUser(s), id |-> NULL, ok |-> FALSE]
    /\ UNCHANGED <<time_logs, nextId, now>>
    /\ StoreUnchanged

\* stopTimer() with activeLog null: if (!activeLog) return.
StopTimerIdle(s) ==
    /\ session[s].mounted
    /\ session[s].activeLog = NULL
    /\ lastOp' = [op |-> "stopTimer", caller |-> SessionUser(s), id |-> NULL, ok |-> TRUE]
    /\ UNCHANGED <<time_logs, nextId, now, session>>
    /\ StoreUnchanged

\* stopTimer() whose request does not reach the store.
StopTimerTransportFailure(s) ==
    /\ StopOffered(s)
    /\ session' = CatchTimerError(s)
    /\ lastOp' = [op |-> "stopTimer", caller |-> SessionUser(s),
                  id |-> session[s].activeLog, ok |-> FALSE]
    /\ UNCHANGED <<time_logs, nextId, now>>
    /\ StoreUnchanged

\* handleManualEntry whose request does not reach the store.
ManualEntryTransportFailure(s, taskId) ==
    /\ session[s].mounted
    /\ ~session[s].loading
    /\ taskId \in session[s].tasks
    /\ session' = CatchTimerError(s)
    /\ lastOp' = [op |-> "handleManualEntry", caller |-> SessionUser(s), id |-> NULL,
                  ok |-> FALSE]
    /\ UNCHANGED <<time_logs, nextId, now>>
    /\ StoreUnchanged

NextTimer ==
    \/ Mount("s1")
    \/ FetchTimeLogsDone("s1")
    \/ FetchTasksDone("s1")
    \/ CheckActiveLogQuery("s1")
    \/ CheckActiveLogDone("s1")
    \/ \E t \in TaskIds : nextId <= MaxStoreLogs /\ StartTimer("s1", t)
    \/ \E t \in TaskIds : StartTimerTransportFailure("s1", t)
    \/ StartTimerDone("s1")
    \/ StopTimerIdle("s1")
    \/ StopTimer("s1")
    \/ StopTimerTransportFailure("s1")
    \/ StopTimerDone("s1")
    \/ \E t \in TaskIds : nextId <= MaxStoreLogs /\ HandleManualEntry("s1", t, 0, 90, Today)
    \/ \E t \in TaskIds : ManualEntryTransportFailure("s1", t)
    \/ \E id \in 1..MaxStoreLogs : UpdateTimeLog("u1", id, [approval_status |-> "rejected"])
    \/ UpdateTask("u2", 1, [assigned_to |-> NULL])

SpecTimer == Init /\ [][NextTimer]_vars
----------------------------------------------------------------------------
(* Tasks page: the fetched list, the edit modal and its form.  Session s1
   is the employee's browser tab, s2 the project manager's. *)

TasksPageUser(s) == IF s = "s1" THEN "u3" ELSE "u2"

\* fetchTasks with filterStatus 'all': the rows the SELECT policies show.
FetchedTasks(uid) ==
    [t \in {x \in DOMAIN tasks : TasksSelect(uid, tasks[x])} |-> tasks[t]]

TasksPageFetchTasks(s) ==
    /\ session' = [session EXCEPT ![s].tasksPage.taskList = FetchedTasks(TasksPageUser(s))]
    /\ UNCHANGED <<time_logs, nextId, now, lastOp>>
    /\ StoreUnchanged

\* openEditModal(task): the form is filled from the listed row.
OpenEditModal(s, id) ==
    LET page == session[s].tasksPage
    IN  /\ ~page.modalOpen
        /\ id \in DOMAIN page.taskList
        /\ session' = [session EXCEPT ![s].tasksPage =
              [page EXCEPT !.modalOpen = TRUE,
                           !.editingTask = Some(id),
                           !.formData = [project_id  |-> OrEmpty(page.taskList[id].project_id),
                                         assigned_to |-> OrEmpty(page.taskList[id].assigned_to),
                                         status      |-> page.taskList[id].status,
                                         end_date    |-> DateString(page.taskList[id].end_date)]]]
        /\ UNCHANGED <<time_logs, nextId, now, lastOp>>
        /\ StoreUnchanged

\* New Task button: resetForm(); setModalOpen(true).
OpenNewModal(s) ==
    /\ ~session[s].tasksPage.modalOpen
    /\ session' = [session EXCEPT ![s].tasksPage.modalOpen = TRUE,
                                  ![s].tasksPage.editingTask = NULL,
                                  ![s].tasksPage.formData = EmptyTaskForm]
    /\ UNCHANGED <<time_logs, nextId, now, lastOp>>
    /\ StoreUnchanged

\* Cancel: setModalOpen(false); resetForm().
CloseModal(s) ==
    /\ session[s].tasksPage.modalOpen
    /\ session' = [session EXCEPT ![s].tasksPage.modalOpen = FALSE,
                                  ![s].tasksPage.editingTask = NULL,
                                  ![s].tasksPage.formData = EmptyTaskForm]
    /\ UNCHANGED <<time_logs, nextId, now, lastOp>>
    /\ StoreUnchanged

\* onChange of a form field: setFormData({ ...formData, field: value }).
SetFormData(s, patch) ==
    LET formData == session[s].tasksPage.formData
    IN  /\ session[s].tasksPage.modalOpen
        /\ session' = [session EXCEPT ![s].tasksPage.formData =
              [c \in DOMAIN formData |-> IF c \in DOMAIN patch THEN patch[c] ELSE formData[c]]]
        /\ UNCHANGED <<time_logs, nextId, now, lastOp>>
        /\ StoreUnchanged

\* taskData of handleSubmit: the form, created_by: profile.id, and '' turned
\* to null for project_id and assigned_to only.
TaskData_withoutStatus(uid, formData) ==
    [created_by  |-> uid,
     project_id  |-> OrNull(formData.project_id),
     assigned_to |-> OrNull(formData.assigned_to),
     end_date    |-> formData.end_date]

TaskData(uid, formData) ==
    [created_by  |-> uid,
     project_id  |-> OrNull(formData.project_id),
     assigned_to |-> OrNull(formData.assigned_to),
     status      |-> formData.status,
     end_date    |-> formData.end_date]

\* handleSubmit: update(taskData).eq('id', editingTask.id) or
\* insert([taskData]); without error the modal closes, the form is reset and
\* the list is fetched again; an error is only logged.
TasksPageHandleSubmit(s) ==
    LET uid      == TasksPageUser(s)
        page     == session[s].tasksPage
        editing  == page.editingTask
        id       == IF editing # NULL THEN Val(editing) ELSE Cardinality(DOMAIN tasks) + 1
        taskData == TaskData(uid, page.formData)
        date     == TaskDateIn(taskData.end_date)
        new      == [taskData EXCEPT !.end_date = date.value]
        outcome  == IF ~date.ok THEN "error"
                    ELSE IF editing # NULL THEN TaskUpdateOutcome(uid, id, new)
                    ELSE IF UsersCanCreateTasks(uid, new) THEN "inserted"
                    ELSE "error"
    IN  /\ page.modalOpen
        /\ editing = NULL => Cardinality(DOMAIN tasks) < MaxTasks
        /\ tasks' = CASE outcome = "updated"  -> [tasks EXCEPT ![id] = UpdatedTask(tasks[id], new)]
                      [] outcome = "inserted" -> (id :> new) @@ tasks
                      [] OTHER                -> tasks
        /\ UNCHANGED <<profiles, projects, project_members, time_logs, nextId, now>>
        /\ session' = IF outcome = "error" THEN session
                      ELSE [session EXCEPT ![s].tasksPage =
                              [taskList |-> FetchedTasks(uid)', modalOpen |-> FALSE,
                               editingTask |-> NULL, formData |-> EmptyTaskForm]]
        /\ lastOp' = [op |-> IF editing # NULL THEN "updateTask" ELSE "insertTask",
                      caller |-> uid, id |-> Some(id), ok |-> outcome # "error"]

\* handleStatusChange(task.id, value) from the status dropdown of a listed
\* task; without error the list is fetched again.
TasksPageHandleStatusChange(s, id, newStatus) ==
    LET uid     == TasksPageUser(s)
        outcome == TaskUpdateOutcome(uid, id, [status |-> newStatus])
    IN  /\ id \in DOMAIN session[s].tasksPage.taskList
        /\ tasks' = IF outcome = "updated"
                    THEN [tasks EXCEPT ![id] = UpdatedTask(tasks[id], [status |-> newStatus])]
                    ELSE tasks
        /\ UNCHANGED <<profiles, projects, project_members, time_logs, nextId, now>>
        /\ session' = IF outcome = "error" THEN session
                      ELSE [session EXCEPT ![s].tasksPage.taskList = FetchedTasks(uid)']
        /\ lastOp' = [op |-> "updateTaskStatus", caller |-> uid, id |-> Some(id),
                      ok |-> outcome # "error"]

\* The employee and the manager work on tasks 1 and 2; the status dropdown
\* is the only way a status changes, the date field the only field typed in,
\* and the employee alone creates tasks and cancels the modal.
NextTaskEdit ==
    \/ \E s \in Sessions : TasksPageFetchTasks(s)
    \/ \E s \in Sessions, t \in {1, 2} : OpenEditModal(s, t)
    \/ OpenNewModal("s1")
    \/ CloseModal("s1")
    \/ \E s \in Sessions : SetFormData(s, [end_date |-> "0"])
    \/ \E s \in Sessions : TasksPageHandleSubmit(s)
    \/ \E s \in Sessions, t \in {1, 2} : TasksPageHandleStatusChange(s, t, "completed")

SpecTaskEdit == Init /\ [][NextTaskEdit]_vars
----------------------------------------------------------------------------
(* Properties *)

RunningRows(uid) == {r \in time_logs : r.user_id = uid /\ r.end_time = NULL}

OnlySession(s) == \A o \in Sessions \ {s} : ~session[o].mounted

Elapsed(r) == Val(r.end_time) - r.start_time

\* C1: in every reachable state every user has at most one time log whose
\* end_time is null.
ActiveTimerInvariant ==
    \A u \in Users : Cardinality(RunningRows(u)) <= 1

\* C2: a startTimer issued while the response of an earlier startTimer of
\* the same session is still unapplied creates no row.
DoubleSubmissionCreatesNoRow ==
    [][\A s \in Sessions, t \in TaskIds :
          ((\E m \in session[s].inbox : m[1] = "startTimer") /\ StartTimer(s, t))
              => time_logs' = time_logs]_vars

\* C3: in a single session, whenever the page offers startTimer the store
\* holds no running time log of the user.
StartOfferedOnlyWhenIdle ==
    \A s \in Sessions :
        (OnlySession(s) /\ StartOffered(s)) => RunningRows(SessionUser(s)) = {}

\* C4: after every insert and update, duration_minutes is null exactly when
\* end_time is null, and otherwise is the whole number of minutes nearest to
\* end_time - start_time, whatever duration the client supplied.
DurationInvariant ==
    \A r \in time_logs :
        /\ (r.duration_minutes = NULL) <=> (r.end_time = NULL)
        /\ r.end_time # NULL =>
              /\ SecondsPerMinute * Val(r.duration_minutes) - Elapsed(r) <= 30
              /\ Elapsed(r) - SecondsPerMinute * Val(r.duration_minutes) <= 30

DurationRecomputedWitness ==
    \E r \in time_logs :
        /\ lastOp.op = "update" /\ lastOp.ok /\ lastOp.id = Some(r.id)
        /\ r.start_time = 0 /\ r.end_time = Some(119) /\ r.duration_minutes = Some(2)

\* C5 as stated: duration_minutes is (end_time - start_time) in seconds,
\* divided by 60 and truncated toward zero.
DurationTruncated ==
    \A r \in time_logs :
        (r.end_time # NULL /\ Elapsed(r) >= 0) =>
            Val(r.duration_minutes) = Elapsed(r) \div SecondsPerMinute

\* C5 amended: duration_minutes is (end_time - start_time) / 60 rounded to
\* the nearest whole minute: a remainder under 30 s rounds down, over 30 s
\* rounds up, and 90 s gives 2.
DurationRounded ==
    \A r \in time_logs :
        (r.end_time # NULL /\ Elapsed(r) >= 0) =>
            LET q == Elapsed(r) \div SecondsPerMinute
                m == Elapsed(r) % SecondsPerMinute
                d == Val(r.duration_minutes)
            IN  /\ m < 30 => d = q
                /\ m > 30 => d = q + 1
                /\ m = 30 => d \in {q, q + 1}
                /\ Elapsed(r) = 90 => d = 2

DurationRoundedWitness ==
    \E r \in time_logs :
        /\ r.end_time # NULL /\ Elapsed(r) = 90 /\ r.duration_minutes = Some(2)

\* C6: a row created by handleManualEntry is pending at creation, whatever
\* the form held, and the approval_status of a row changes only in an
\* update of that row.
ManualEntryPending ==
    [][/\ lastOp'.op = "handleManualEntry" =>
             \A r \in time_logs' \ time_logs : r.approval_status = "pending"
       /\ \A r \in time_logs, r2 \in time_logs' :
             (r.id = r2.id /\ r.approval_status # r2.approval_status) =>
                 (lastOp'.op = "update" /\ lastOp'.id = Some(r.id))]_vars

ManualEntryWitness ==
    \E r \in time_logs :
        /\ lastOp.op = "handleManualEntry" /\ lastOp.ok /\ lastOp.id = Some(r.id)
        /\ r.approval_status = "pending" /\ r.date = 1

\* C7: every update that changes the approval_status of a time log is
\* issued by an admin.
OnlyAdminChangesApproval ==
    [][\A r \in time_logs, r2 \in time_logs' :
          (r.id = r2.id /\ r.approval_status # r2.approval_status) =>
              IsAdmin(lastOp'.caller)]_vars

\* C10: a time log disappears only in a delete issued by an admin, or by its
\* owner while the log is pending.
DeleteOnlyByAdminOrPendingOwner ==
    [][\A r \in time_logs :
          (\A r2 \in time_logs' : r2.id # r.id) =>
              /\ lastOp'.op = "delete"
              /\ \/ IsAdmin(lastOp'.caller)
                 \/ (r.user_id = lastOp'.caller /\ r.approval_status = "pending")]_vars

DeleteRefusedWitness ==
    \E r \in time_logs :
        /\ lastOp.op = "delete" /\ lastOp.id = Some(r.id)
        /\ ~IsAdmin(lastOp.caller)
        /\ r.user_id = lastOp.caller /\ r.approval_status = "approved"


\* C8: the role and status of a profile change only in an update issued by
\* a caller who is admin; a non-admin changes no profile but their own, and
\* their own only with role and status left as stored.
RoleAndStatusChangedOnlyByAdmin ==
    [][\A u \in DOMAIN profiles :
          profiles'[u] # profiles[u] =>
              \/ IsAdmin(lastOp'.caller)
              \/ /\ lastOp'.caller = u
                 /\ profiles'[u].role = profiles[u].role
                 /\ profiles'[u].status = profiles[u].status]_vars

OwnProfileUpdatedWitness ==
    /\ lastOp.op = "updateProfile" /\ lastOp.ok
    /\ lastOp.caller = "u3" /\ lastOp.id = Some("u3")
    /\ profiles["u3"].role = "employee" /\ profiles["u3"].full_name = "b"

\* C9: a task is selectable by a caller exactly when the caller is its
\* assignee, its creator, an admin, the manager of its project or a member
\* of its project; a personal task only by its creator, assignee and admins.
TaskSelectableIff ==
    \A c \in Users, t \in DOMAIN tasks :
        LET row == tasks[t]
            own == row.assigned_to = Some(c) \/ row.created_by = c
            admin == profiles[c].role = "admin"
            manager == /\ row.project_id # NULL
                       /\ projects[Val(row.project_id)].manager_id = Some(c)
            member == /\ row.project_id # NULL
                      /\ <<Val(row.project_id), c>> \in project_members
        IN  /\ TasksSelect(c, row) <=> (own \/ admin \/ manager \/ member)
            /\ row.project_id = NULL => (TasksSelect(c, row) <=> (own \/ admin))

TaskSelectableWitness ==
    /\ \E c \in Users, t \in DOMAIN tasks :
          /\ TasksSelect(c, tasks[t])
          /\ tasks[t].assigned_to # Some(c) /\ tasks[t].created_by # c
          /\ ~IsAdmin(c) /\ ~ManagesProject(c, tasks[t].project_id)
          /\ lastOp.op = "insertTask" /\ lastOp.id = Some(t)
    /\ \E c \in Users, t \in DOMAIN tasks :
          tasks[t].project_id = NULL /\ ~TasksSelect(c, tasks[t])
    /\ \E c \in Users, t \in DOMAIN tasks :
          tasks[t].project_id # NULL /\ ~TasksSelect(c, tasks[t])

\* C11: a step changes a task row only when the caller is the row's creator,
\* its assignee, an admin or the manager of the row's project, and removes a
\* task row only when the caller is an admin; for every other caller the row
\* is the same after the step.
TaskWrittenOnlyByAuthorized ==
    [][\A t \in DOMAIN tasks :
          LET c == lastOp'.caller
              old == tasks[t]
          IN  /\ t \notin DOMAIN tasks' => profiles[c].role = "admin"
              /\ (t \in DOMAIN tasks' /\ tasks'[t] # old) =>
                    \/ old.created_by = c
                    \/ old.assigned_to = Some(c)
                    \/ profiles[c].role = "admin"
                    \/ /\ old.project_id # NULL
                       /\ projects[Val(old.project_id)].manager_id = Some(c)]_vars

\* C11 witness: project manager u2 asked to update personal task 2 of u3
\* (neither created by nor assigned to u2) and the row is as it was.
TaskWriteRefusedWitness ==
    /\ lastOp.op = "updateTask" /\ lastOp.caller = "u2" /\ lastOp.id = Some(2)
    /\ 2 \in DOMAIN tasks
    /\ tasks[2] = [project_id |-> NULL, assigned_to |-> NULL, created_by |-> "u3",
                   status |-> "to_do", end_date |-> NULL]

\* C12 as stated: an insert into tasks is accepted exactly when its created_by
\* is the caller, whatever its project_id is.
TaskInsertAcceptedForAnyProject ==
    [][\A c \in Users, t \in NewTasks :
          (lastOp'.op = "insertTask" /\ InsertTask(c, t)) =>
             (tasks' # tasks <=> t.created_by = c)]_vars

\* C12 amended: an insert into tasks is accepted exactly when its created_by is
\* the caller and its project_id is null or names a project of which the
\* caller is the manager or a member, or the caller is an admin; an accepted
\* insert stores the row as given.
TaskInsertAcceptedForOwnProjects ==
    [][\A c \in Users, t \in NewTasks :
          (lastOp'.op = "insertTask" /\ InsertTask(c, t)) =>
             /\ tasks' # tasks <=>
                   /\ t.created_by = c
                   /\ \/ t.project_id = NULL
                      \/ profiles[c].role = "admin"
                      \/ projects[Val(t.project_id)].manager_id = Some(c)
                      \/ <<Val(t.project_id), c>> \in project_members
             /\ tasks' # tasks => tasks'[Val(lastOp'.id)] = t]_vars

\* C12 witness: an employee who is a member of no project has created a
\* personal task for themselves.
PersonalTaskCreatedWitness ==
    /\ lastOp.op = "insertTask" /\ lastOp.ok
    /\ profiles[lastOp.caller].role = "employee"
    /\ \A m \in project_members : m[2] # lastOp.caller
    /\ tasks[Val(lastOp.id)].created_by = lastOp.caller
    /\ tasks[Val(lastOp.id)].project_id = NULL

\* C13: a step adds or removes a projects row only when the caller's role is
\* admin, and changes a projects row only when the caller is an admin or the
\* row's manager_id; a request by anyone else leaves the table as it was.
ProjectWrittenOnlyByAuthorized ==
    [][LET c == lastOp'.caller
       IN  /\ DOMAIN projects' # DOMAIN projects => profiles[c].role = "admin"
           /\ \A p \in DOMAIN projects \cap DOMAIN projects' :
                 projects'[p] # projects[p] =>
                    \/ profiles[c].role = "admin"
                    \/ projects[p].manager_id = Some(c)]_vars

\* C13 witness: a project manager's insert into projects was rejected and no
\* row was added.
ProjectInsertRefusedWitness ==
    /\ lastOp.op = "insertProject" /\ ~lastOp.ok
    /\ profiles[lastOp.caller].role = "project_manager"
    /\ DOMAIN projects = ProjectIds

\* C14: the projects a project_manager's select returns are projects they
\* manage or are a member of.
ProjectManagerSeesOnlyAssignedProjects ==
    [][\A c \in Users :
          (/\ lastOp'.op = "fetchProjects" /\ FetchProjects(c)
           /\ profiles[c].role = "project_manager") =>
             \A r \in lastOp'.rows :
                 \/ r.manager_id = Some(c)
                 \/ <<r.id, c>> \in project_members]_vars

\* C20: submitting the Projects form as resetForm leaves it creates a row
\* whose description, manager_id, start_date and end_date are null, and the
\* creator's next fetch returns that row with the same nulls.
EmptyProjectFormRoundTrip ==
    [][\A c \in Users :
          (lastOp'.op = "insertProject" /\ ProjectsHandleSubmit(c, EmptyProjectForm)) =>
             /\ lastOp'.ok
             /\ \E r \in FetchProjectsResult(c)' :
                   /\ r.id \notin DOMAIN projects
                   /\ r.description = NULL /\ r.manager_id = NULL
                   /\ r.start_date = NULL /\ r.end_date = NULL]_vars

\* C15: an update by the non-admin owner of a time log whose approval_status
\* is approved leaves the row as it was.
OwnerCannotUpdateApprovedLog ==
    [][\A r \in time_logs :
          (/\ lastOp'.op = "update" /\ lastOp'.id = Some(r.id)
           /\ lastOp'.caller = r.user_id
           /\ profiles[r.user_id].role # "admin"
           /\ r.approval_status = "approved") => r \in time_logs']_vars

\* C16: a registered user who has no profiles row and is not an admin inserts
\* the row whose id is their own user id, and the row is stored with role
\* employee and status active.
SelfRegistrationCreatesProfile ==
    [][\A u \in NewUsers :
          (/\ lastOp'.op = "insertProfile"
           /\ u \notin DOMAIN profiles
           /\ InsertProfile(u, u, [full_name |-> "a"])) =>
             /\ u \in DOMAIN profiles'
             /\ profiles'[u].role = "employee" /\ profiles'[u].status = "active"]_vars

\* C17: the minutes the Dashboard shows as Hours Today and the minutes behind
\* Reports' Total Hours and per-user hours are those of approved time logs
\* only; a pending or rejected log adds nothing to them.
TotalsCountApprovedOnly ==
    [][LET approved(rows) == {r \in rows : r.approval_status = "approved"}
           c == lastOp'.caller
       IN  /\ (/\ lastOp'.op = "fetchDashboardData"
                /\ FetchDashboardData(c, lastOp'.isAdmin)) =>
                 lastOp'.stats.totalTimeToday =
                    SumMinutes(approved(DashboardTimeLogs(c, lastOp'.isAdmin)))
           /\ (/\ lastOp'.op = "fetchReports"
                /\ \E a, m \in BOOLEAN : FetchReports(c, a, m)) =>
                 /\ lastOp'.totalMinutes =
                       SumMinutes(approved({r \in time_logs : TimeLogsSelect(c, r)}))
                 /\ \A u \in DOMAIN lastOp'.userMinutes :
                       lastOp'.userMinutes[u] =
                          SumMinutes(approved({r \in time_logs :
                                        TimeLogsSelect(c, r) /\ r.user_id = u}))]_vars

\* C18: overdueTasks is the number of fetched tasks whose end_date is set and
\* lies before now (an earlier day, or today once midnight UTC has passed)
\* and whose status is not completed.
OverdueTasksCount ==
    [][(/\ lastOp'.op = "fetchDashboardData"
        /\ FetchDashboardData(lastOp'.caller, lastOp'.isAdmin)) =>
          LET fetched == DashboardTasks(lastOp'.caller, lastOp'.isAdmin)
              due == {t \in fetched :
                        /\ tasks[t].end_date # NULL
                        /\ \/ Val(tasks[t].end_date) < Today
                           \/ Val(tasks[t].end_date) = Today /\ now % SecondsPerDay > 0
                        /\ tasks[t].status # "completed"}
          IN  lastOp'.stats.overdueTasks = Cardinality(due)]_vars

\* C18 witness: of three fetched tasks, one due yesterday and in progress, one
\* due yesterday and completed and one without end_date, the Dashboard
\* counted one as overdue.
OverdueTasksWitness ==
    /\ lastOp.op = "fetchDashboardData"
    /\ lastOp.stats.overdueTasks = 1
    /\ \E a, b, c \in DashboardTasks(lastOp.caller, lastOp.isAdmin) :
          /\ tasks[a].end_date = Some(Today - 1) /\ tasks[a].status = "in_progress"
          /\ tasks[b].end_date = Some(Today - 1) /\ tasks[b].status = "completed"
          /\ tasks[c].end_date = NULL

\* C19: for a caller whose profile role is employee, or whose profile is not
\* loaded, the menu holds neither Reports nor Users, the Users page shows the
\* no-permission message without fetching profiles, and Reports neither
\* computes the team-productivity data nor shows its chart.
EmployeeViewsHidden ==
    [][\A c \in Users, l \in BOOLEAN :
          LET profile == UseAuthProfile(c, l)
              employee == profile = NULL \/ Val(profile).role = "employee"
          IN  employee =>
                /\ (lastOp'.op = "renderLayout" /\ RenderLayout(c, l)) =>
                      lastOp'.nav \cap {"Reports", "Users"} = {}
                /\ (lastOp'.op = "usersPage" /\ UsersPageMount(c, l)) =>
                      lastOp'.view = "noPermission" /\ ~lastOp'.fetchUsers
                /\ (lastOp'.op = "fetchReports" /\ ReportsPageMount(c, l)) =>
                      /\ ~lastOp'.computed /\ ~lastOp'.chartShown
                      /\ lastOp'.userMinutes = <<>>]_vars

\* C19 witness: the menu was rendered for a loaded employee profile; it holds
\* the five common entries and neither Reports nor Users.
EmployeeMenuWitness ==
    /\ lastOp.op = "renderLayout"
    /\ lastOp.role = Some("employee")
    /\ lastOp.nav = {"Dashboard", "Projects", "Tasks", "Time Tracking", "Calendar"}

\* C21: a stopTimer with activeLog null writes nothing to the store; a
\* stopTimer on the active row r that the store answers without error changes
\* no other row and leaves r with non-null end_time and duration_minutes.
StopSetsEndTimeOfActiveRow ==
    [][\A s \in Sessions :
          /\ StopTimerIdle(s) => time_logs' = time_logs
          /\ (StopTimer(s) /\ lastOp'.ok) =>
                /\ \A r \in time_logs :
                      r.id # Val(session[s].activeLog) => r \in time_logs'
                /\ \A r \in time_logs' :
                      r.id = Val(session[s].activeLog) =>
                          r.end_time # NULL /\ r.duration_minutes # NULL]_vars

RunningTimerCanBeStopped ==
    [][\A s \in Sessions : \A r \in time_logs :
          (/\ StopOffered(s)
           /\ session[s].activeLog = Some(r.id)
           /\ r.user_id = SessionUser(s)
           /\ r.end_time = NULL
           /\ StopTimer(s))
              => \E q \in time_logs' : q.id = r.id /\ q.end_time # NULL]_vars

\* C23: an edit-form submit is judged on the form and the policies alone,
\* never on whether the row still equals the snapshot the form was filled
\* from: when the policies admit it, it is applied and every column it names
\* holds the form's value afterwards, including a status the other user has
\* changed since; a status change from the dropdown is applied likewise; and
\* an error comes only from the form's date or the WITH CHECK of the new row.
LastWriteWins ==
    [][\A s \in Sessions :
          LET uid  == TasksPageUser(s)
              page == session[s].tasksPage
              id   == Val(page.editingTask)
              form == page.formData
              date == TaskDateIn(form.end_date)
              new  == [created_by |-> uid, project_id |-> OrNull(form.project_id),
                       assigned_to |-> OrNull(form.assigned_to), status |-> form.status,
                       end_date |-> date.value]
          IN  /\ (/\ lastOp'.op = "updateTask" /\ lastOp'.caller = uid
                  /\ page.modalOpen /\ page.editingTask # NULL
                  /\ id \in DOMAIN tasks
                  /\ TasksPageHandleSubmit(s))
                 => /\ (date.ok /\ TasksUpdateUsing(uid, tasks[id])
                                /\ TasksUpdateCheck(uid, new))
                       => lastOp'.ok /\ tasks'[id] = new
                    /\ ~lastOp'.ok => ~date.ok \/ ~TasksUpdateCheck(uid, new)
              /\ \A t \in DOMAIN tasks :
                    (/\ lastOp'.op = "updateTaskStatus" /\ lastOp'.caller = uid
                     /\ lastOp'.id = Some(t)
                     /\ TasksPageHandleStatusChange(s, t, "completed")
                     /\ TasksUpdateUsing(uid, tasks[t]))
                    => lastOp'.ok /\ tasks'[t] = [tasks[t] EXCEPT !.status = "completed"]]_vars

\* Witness of C23: the manager's list shows task 1 completed, as their
\* status change left it, and the employee's edit form, filled while the
\* status was to_do, has since been applied and put the status back.
StatusChangeOverwrittenWitness ==
    /\ lastOp = [op |-> "updateTask", caller |-> "u3", id |-> Some(1), ok |-> TRUE]
    /\ 1 \in DOMAIN session["s2"].tasksPage.taskList
    /\ session["s2"].tasksPage.taskList[1].status = "completed"
    /\ tasks[1].status = "to_do"

\* C29: a submit of the Tasks edit form leaves created_by of the edited task
\* as it was.
EditKeepsCreatedBy ==
    [][\A s \in Sessions : \A t \in DOMAIN tasks :
          (session[s].tasksPage.editingTask = Some(t) /\ TasksPageHandleSubmit(s))
              => tasks'[t].created_by = tasks[t].created_by]_vars

\* The minutes of the time logs with ids 1..n that are dated today and, for a
\* caller who is no admin, are the caller's own; a log without
\* duration_minutes counts 0.
TodayMinutes(uid) ==
    LET counted(n) == {r \in time_logs : /\ r.id = n
                                         /\ r.date = Today
                                         /\ IsAdmin(uid) \/ r.user_id = uid
                                         /\ r.duration_minutes # NULL}
        upTo[n \in 0..(nextId - 1)] ==
            IF n = 0 THEN 0
            ELSE upTo[n - 1]
                 + (IF counted(n) = {} THEN 0
                    ELSE Val((CHOOSE r \in counted(n) : TRUE).duration_minutes))
    IN  upTo[nextId - 1]

RECURSIVE SumOfCounts(_, _)
SumOfCounts(counts, statuses) ==
    IF statuses = {} THEN 0
    ELSE LET st == CHOOSE x \in statuses : TRUE
         IN  counts[st] + SumOfCounts(counts, statuses \ {st})

\* C25: whatever tasks the Reports page fetches, personal tasks included, the
\* aggregation answers without error; its per-status counts sum to the number
\* of fetched tasks; for every fetched project, total is the number of
\* fetched tasks of that project and completed the number of those that are
\* completed, with 0 <= completed <= total; and a personal task is counted
\* under its status and in no project's total.
ReportsAggregation ==
    [][\A c \in Users, a \in BOOLEAN, m \in BOOLEAN :
          (lastOp'.op = "fetchReports" /\ FetchReports(c, a, m)) =>
              LET fetched  == {t \in DOMAIN tasks : TasksSelect(c, tasks[t])}
                  stats    == lastOp'.taskStats
                  progress == lastOp'.projectProgress
              IN  /\ lastOp'.ok
                  /\ SumOfCounts(stats, DOMAIN stats) = Cardinality(fetched)
                  /\ \A p \in DOMAIN progress :
                        /\ progress[p].total =
                              Cardinality({t \in fetched : tasks[t].project_id = Some(p)})
                        /\ progress[p].completed =
                              Cardinality({t \in fetched :
                                              /\ tasks[t].project_id = Some(p)
                                              /\ tasks[t].status = "completed"})
                        /\ 0 <= progress[p].completed
                        /\ progress[p].completed <= progress[p].total
                  /\ \A t \in fetched :
                        tasks[t].project_id = NULL =>
                            /\ tasks[t].status \in DOMAIN stats
                            /\ stats[tasks[t].status] >= 1
                            /\ \A p \in DOMAIN progress :
                                  progress[p].total <=
                                      Cardinality(fetched \ {t})]_vars

\* Witness of C25: the admin's Reports page has counted three tasks, two of
\* them completed: the personal task 2 and one of the two tasks of project
\* p1, whose progress is 1 of 2.
ReportsAggregationWitness ==
    /\ lastOp.op = "fetchReports" /\ lastOp.caller = "u1"
    /\ tasks[2].project_id = NULL /\ tasks[2].status = "completed"
    /\ DOMAIN lastOp.taskStats = {"to_do", "completed"}
    /\ lastOp.taskStats["completed"] = 2 /\ lastOp.taskStats["to_do"] = 1
    /\ lastOp.projectProgress["p1"] = [total |-> 2, completed |-> 1]

\* C24: the project_id of every time log is the project_id of the task it
\* references.
TimeLogProjectDerivedFromTask ==
    \A r \in time_logs :
        r.task_id \in DOMAIN tasks => r.project_id = tasks[r.task_id].project_id

\* C27: the answer of checkActiveLog, which becomes activeLog, is non-null
\* exactly when the store holds at least one running time log of the user.
CheckActiveLogAgreesWithStore ==
    [][\A s \in Sessions :
          CheckActiveLogQuery(s) =>
              \A m \in session'[s].inbox \ session[s].inbox :
                  (m[2] # NULL) <=> (RunningRows(SessionUser(s)) # {})]_vars

\* C28: a stopTimer leaves the end_time and duration_minutes of every time
\* log that is already stopped as they were.
StoppedLogNeverRestopped ==
    [][\A s \in Sessions :
          StopTimer(s) =>
              \A r \in time_logs :
                  r.end_time # NULL =>
                      \E q \in time_logs' :
                          /\ q.id = r.id
                          /\ q.end_time = r.end_time
                          /\ q.duration_minutes = r.duration_minutes]_vars

====
